---- MODULE Spec2Model ----
(***************************************************************************)
(* A model of matching.py: the generator disjoint_matchings(n), which      *)
(* iterates through n-1 disjoint perfect matchings of the complete graph   *)
(* on n vertices, and the verifier test(min_test, max_test).               *)
(*                                                                         *)
(* A generator object is modelled by its frame (where it is suspended and  *)
(* the locals it keeps); one action is one next() on it.                   *)
(***************************************************************************)
EXTENDS Integers, Sequences, FiniteSets, TLC

\* Largest |n| a generator is called with.
MaxN == 12

\* The independent generator objects that are iterated side by side.
Gens == {1, 2}

VARIABLES
    n,          \* the argument of disjoint_matchings
    gen,        \* gen[g]: the frame of generator object g
    out,        \* out[g]: the matchings generator g has yielded so far
    args,       \* the positional arguments test() was called with
    min_test,   \* test(): min_test after the defaults are applied
    max_test,   \* test(): max_test after the defaults are applied
    tpc,        \* test(): where the call is
    tk,         \* test(): how many n of the range the for loop has taken
    data,       \* test(): data, the adjacency sets of the current n
    tgen,       \* test(): the frame of the generator of the current n
    called,     \* test(): the n disjoint_matchings was called with, in order
    report      \* test(): the outcome of every n, in order

genVars == <<n, gen, out>>
testVars == <<args, min_test, max_test, tpc, tk, data, tgen, called, report>>
vars == <<n, gen, out, args, min_test, max_test, tpc, tk, data, tgen, called,
          report>>

----------------------------------------------------------------------------
(* Python built-ins *)

\* range(start, stop, step) for step > 0, as a sequence.
Range(start, stop, step) ==
    LET cnt == IF stop > start THEN (stop - start + step - 1) \div step ELSE 0
    IN  [k \in 1..cnt |-> start + (k - 1) * step]

\* math.gcd(a, b) for non-negative a, b.
RECURSIVE gcd(_, _)
gcd(a, b) == IF b = 0 THEN a ELSE gcd(b, a % b)

\* itertools.chain.from_iterable(lists), as a list.
RECURSIVE Chain(_)
Chain(lists) ==
    IF Len(lists) = 0 THEN <<>> ELSE Head(lists) \o Chain(Tail(lists))

----------------------------------------------------------------------------
(* _modulolist *)

\* _modulolist.__getitem__: the element at item % len(self) (0-based).
modulolist_getitem(elements, item) == elements[(item % Len(elements)) + 1]

----------------------------------------------------------------------------
(* _twice_an_odd_handling *)

\* The list yielded at step index: the pair of opposite elements, then the
\* pairs of the elements ind to the right and ind to the left of index.
twice_an_odd_yieldval(elements, index) ==
    LET halflen == Len(elements) \div 2
    IN  [p \in 1..halflen |->
            IF p = 1
            THEN <<modulolist_getitem(elements, index),
                   modulolist_getitem(elements, index + halflen)>>
            ELSE <<modulolist_getitem(elements, index + (p - 1)),
                   modulolist_getitem(elements, index - (p - 1))>>]

\* (mutant) the generator runs one index past range(halflen).
twice_an_odd_exhausted_late(sg) == sg.index > Len(sg.elements) \div 2

\* A suspended _twice_an_odd_handling generator has yielded every index
\* of range(halflen).
twice_an_odd_exhausted(sg) == sg.index >= Len(sg.elements) \div 2

----------------------------------------------------------------------------
(* _two_factors *)

\* The while loop: halve while even, counting.
RECURSIVE two_factors_loop(_, _)
two_factors_loop(m, count) ==
    IF m % 2 = 0 THEN two_factors_loop(m \div 2, count + 1) ELSE count

\* _two_factors(m): raises ValueError for 0, else the number of halvings.
two_factors(m) ==
    IF m = 0 THEN [raised |-> TRUE, value |-> 0]
    ELSE [raised |-> FALSE, value |-> two_factors_loop(m, 0)]

----------------------------------------------------------------------------
(* disjoint_matchings *)

\* reducedtwofactorpower and twofactorpower, for twofactor >= 1.
reducedtwofactorpower(m) == 2 ^ (two_factors(m).value - 1)
twofactorpower(m) == 2 * reducedtwofactorpower(m)

\* (mutant) the offset n/2 is not skipped.
skip_offset_no_half(m, i) == i % twofactorpower(m) = 0

\* The two "continue" tests of the offset loop.
skip_offset(m, i) == (i % twofactorpower(m) = 0) \/ (i * 2 = m)

\* The first i >= i0 of range(1, m) the loop does not skip; a value >= m
\* when the loop runs out.
RECURSIVE next_offset(_, _)
next_offset(m, i0) ==
    IF i0 >= m THEN i0
    ELSE IF skip_offset(m, i0) THEN next_offset(m, i0 + 1)
    ELSE i0

\* (mutant) every edge of the cycle is taken, not every other one.
offset_yieldval_every_edge(m, i) ==
    LET g == gcd(m, i)
        js == Range(0, m \div g, 1)
        per == Len(js)
    IN  [p \in 1..(g * per) |->
            LET k == (p - 1) \div per
                j == js[((p - 1) % per) + 1]
            IN  <<(k + j * i) % m, (k + (j + 1) * i) % m>>]

\* (mutant) the two components of every pair are swapped.
offset_yieldval_swapped(m, i) ==
    LET g == gcd(m, i)
        js == Range(0, m \div g, 2)
        per == Len(js)
    IN  [p \in 1..(g * per) |->
            LET k == (p - 1) \div per
                j == js[((p - 1) % per) + 1]
            IN  <<(k + (j + 1) * i) % m, (k + j * i) % m>>]

\* The matching of offset i: for every k in range(gcd), every other edge
\* of the cycle k, k+i, k+2i, ...
offset_yieldval(m, i) ==
    LET g == gcd(m, i)
        js == Range(0, m \div g, 2)
        per == Len(js)
    IN  [p \in 1..(g * per) |->
            LET k == (p - 1) \div per
                j == js[((p - 1) % per) + 1]
            IN  <<(k + j * i) % m, (k + (j + 1) * i) % m>>]

\* The vertices of subgraph subgraph_index.
subgraph(m, subgraph_index) ==
    LET rg == Range(subgraph_index, subgraph_index + m,
                    reducedtwofactorpower(m))
    IN  [t \in 1..Len(rg) |-> rg[t] % m]

\* (mutant) the subgraphs are taken from the last to the first.
make_subgraph_generators_reversed(m) ==
    [s \in 1..reducedtwofactorpower(m) |->
        [elements |-> subgraph(m, reducedtwofactorpower(m) - s),
         index |-> 0]]

\* subgraph_generators: one fresh _twice_an_odd_handling per subgraph.
make_subgraph_generators(m) ==
    [s \in 1..reducedtwofactorpower(m) |->
        [elements |-> subgraph(m, s - 1), index |-> 0]]

\* The frame of a generator object that has not been started.
FreshFrame == [pc |-> "created", i |-> 0, subgraph_generators |-> <<>>]

\* One step of zip(*subgraph_generators): stop as soon as one generator is
\* exhausted, else the chained lists of all of them.
zip_step(frame) ==
    LET sgs == frame.subgraph_generators
    IN  IF Len(sgs) = 0 \/ \E s \in 1..Len(sgs) : twice_an_odd_exhausted(sgs[s])
        THEN [frame |-> [frame EXCEPT !.pc = "stopped"],
              result |-> "stop", value |-> <<>>]
        ELSE [frame |-> [frame EXCEPT
                            !.pc = "rotation",
                            !.subgraph_generators =
                                [s \in 1..Len(sgs) |->
                                    [sgs[s] EXCEPT !.index = @ + 1]]],
              result |-> "yield",
              value |-> Chain([s \in 1..Len(sgs) |->
                          twice_an_odd_yieldval(sgs[s].elements,
                                                sgs[s].index)])]

\* The offset loop from i0 on: yield the next offset's matching, or fall
\* through to the subgraphs.
offset_loop(m, frame, i0) ==
    LET i1 == next_offset(m, i0)
    IN  IF i1 < m
        THEN [frame |-> [frame EXCEPT !.pc = "offset", !.i = i1],
              result |-> "yield", value |-> offset_yieldval(m, i1)]
        ELSE zip_step([frame EXCEPT
                          !.subgraph_generators = make_subgraph_generators(m)])

\* next() on a generator object of disjoint_matchings(m) suspended at frame.
resume(m, frame) ==
    CASE frame.pc = "created" ->
            IF two_factors(m).raised \/ two_factors(m).value = 0
            THEN [frame |-> [frame EXCEPT !.pc = "raised"],
                  result |-> "raise", value |-> <<>>]
            ELSE offset_loop(m, frame, 1)
      [] frame.pc = "offset" -> offset_loop(m, frame, frame.i + 1)
      [] frame.pc = "rotation" -> zip_step(frame)
      [] OTHER -> [frame |-> frame, result |-> "stop", value |-> <<>>]

\* list(disjoint_matchings(m)) from a frame on, for a run that does not raise.
RECURSIVE drain(_, _)
drain(m, frame) ==
    LET r == resume(m, frame)
    IN  IF r.result = "yield" THEN <<r.value>> \o drain(m, r.frame) ELSE <<>>

----------------------------------------------------------------------------
(* The generator objects of one n, each advanced by next() *)

\* Generator object g is left suspended at frame.
Suspend(g, frame) == gen' = [gen EXCEPT ![g] = frame]

TestIdle ==
    /\ args = <<>>
    /\ min_test = 0 /\ max_test = 0
    /\ tpc = "idle" /\ tk = 0
    /\ data = <<>> /\ tgen = FreshFrame
    /\ called = <<>> /\ report = <<>>

Init ==
    /\ n \in (0 - MaxN)..MaxN
    /\ gen = [g \in Gens |-> FreshFrame]
    /\ out = [g \in Gens |-> <<>>]
    /\ TestIdle

\* next(g) raises ValueError.
GenRaise(g) ==
    LET r == resume(n, gen[g])
    IN  /\ r.result = "raise"
        /\ Suspend(g, r.frame)
        /\ UNCHANGED <<n, out>>
        /\ UNCHANGED testVars

\* next(g) yields a matching.
GenYield(g) ==
    LET r == resume(n, gen[g])
    IN  /\ r.result = "yield"
        /\ Suspend(g, r.frame)
        /\ out' = [out EXCEPT ![g] = Append(@, r.value)]
        /\ UNCHANGED n
        /\ UNCHANGED testVars

\* next(g) raises StopIteration for the first time.
GenStop(g) ==
    LET r == resume(n, gen[g])
    IN  /\ r.result = "stop"
        /\ gen[g].pc \notin {"stopped", "raised"}
        /\ Suspend(g, r.frame)
        /\ UNCHANGED <<n, out>>
        /\ UNCHANGED testVars

\* A finished iteration is replaced by a new call disjoint_matchings(n).
GenRestart(g) ==
    /\ gen[g].pc = "stopped"
    /\ Suspend(g, FreshFrame)
    /\ out' = [out EXCEPT ![g] = <<>>]
    /\ UNCHANGED n
    /\ UNCHANGED testVars

Next ==
    \/ \E g \in Gens : GenRaise(g)
    \/ \E g \in Gens : GenYield(g)
    \/ \E g \in Gens : GenStop(g)
    \/ \E g \in Gens : GenRestart(g)

Spec == Init /\ [][Next]_vars

----------------------------------------------------------------------------
(* test *)

\* The value min_test takes when test() is called without arguments.
DefaultTest == 100

\* Largest |argument| test() is called with.
MaxArg == 8

\* The two "if ... == _sentinel" statements: a is the list of the
\* positional arguments given, a missing one is the sentinel.
apply_defaults(a) ==
    LET min0 == IF Len(a) >= 1 THEN a[1] ELSE DefaultTest
    IN  IF Len(a) >= 2
        THEN [min_test |-> min0, max_test |-> a[2]]
        ELSE [min_test |-> 2, max_test |-> min0]

\* range(min_test, max_test, 2), and the n the for loop is at.
TestRange == Range(min_test, max_test, 2)
CurN == TestRange[tk]

\* [set() for _ in range(m)]
fresh_data(m) == [v \in 0..(m - 1) |-> {}]

\* The two "if ... in data[...]" tests.
is_duplicate(d, index_one, index_two) ==
    index_one \in d[index_two] \/ index_two \in d[index_one]

\* The loop over the pairs of one matching, from pair p on: stops at the
\* first pair found in data, else adds each pair to data both ways.
RECURSIVE consume_pairs(_, _, _)
consume_pairs(d, matching, p) ==
    IF p > Len(matching) THEN [data |-> d, raised |-> FALSE, pair |-> <<>>]
    ELSE LET index_one == matching[p][1]
             index_two == matching[p][2]
             d1 == [d EXCEPT ![index_one] = @ \cup {index_two}]
             d2 == [d1 EXCEPT ![index_two] = @ \cup {index_one}]
         IN  IF is_duplicate(d, index_one, index_two)
             THEN [data |-> d, raised |-> TRUE, pair |-> matching[p]]
             ELSE consume_pairs(d2, matching, p + 1)

\* The test of the loop over enumerate(data).
incomplete(d, m) == \E vertex \in DOMAIN d : Cardinality(d[vertex]) # m - 1

\* The exception leaves test(): its locals are gone.
Raise(outcome) ==
    /\ tpc' = "raised"
    /\ report' = Append(report, [n |-> CurN, outcome |-> outcome])
    /\ data' = <<>>
    /\ tgen' = FreshFrame

\* The body of "for matching in ...": the pairs of one matching.
ConsumeMatching(matching) ==
    LET c == consume_pairs(data, matching, 1)
    IN  IF c.raised
        THEN Raise("duplicate")
        ELSE /\ data' = c.data
             /\ UNCHANGED <<tpc, report>>

\* The generator is exhausted: the loop over enumerate(data), then the
\* print of "n vertices passed".
FinishN ==
    IF incomplete(data, CurN)
    THEN Raise("incomplete")
    ELSE /\ tpc' = "loop"
         /\ report' = Append(report, [n |-> CurN, outcome |-> "passed"])
         /\ data' = <<>>
         /\ tgen' = FreshFrame

\* test() is entered: the defaults are applied.
TestStart ==
    /\ tpc = "start"
    /\ min_test' = apply_defaults(args).min_test
    /\ max_test' = apply_defaults(args).max_test
    /\ tpc' = "loop"
    /\ UNCHANGED <<args, tk, data, tgen, called, report>>
    /\ UNCHANGED genVars

\* The for loop takes the next n: data is made and disjoint_matchings(n)
\* is called.
TestForN ==
    /\ tpc = "loop"
    /\ tk < Len(TestRange)
    /\ tk' = tk + 1
    /\ data' = fresh_data(TestRange[tk + 1])
    /\ tgen' = FreshFrame
    /\ called' = Append(called, TestRange[tk + 1])
    /\ tpc' = "iterating"
    /\ UNCHANGED <<args, min_test, max_test, report>>
    /\ UNCHANGED genVars

\* The range is exhausted: "Test complete" is printed.
TestComplete ==
    /\ tpc = "loop"
    /\ tk >= Len(TestRange)
    /\ tpc' = "complete"
    /\ UNCHANGED <<args, min_test, max_test, tk, data, tgen, called, report>>
    /\ UNCHANGED genVars

\* next() on disjoint_matchings(n) raises ValueError, which leaves test().
TestValueError ==
    /\ tpc = "iterating"
    /\ resume(CurN, tgen).result = "raise"
    /\ Raise("ValueError")
    /\ UNCHANGED <<args, min_test, max_test, tk, called>>
    /\ UNCHANGED genVars

\* next() on disjoint_matchings(n) yields a matching, which is consumed.
TestMatching ==
    /\ tpc = "iterating"
    /\ resume(CurN, tgen).result = "yield"
    /\ ConsumeMatching(resume(CurN, tgen).value)
    /\ tgen' = IF tpc' = "raised" THEN FreshFrame
               ELSE resume(CurN, tgen).frame
    /\ UNCHANGED <<args, min_test, max_test, tk, called>>
    /\ UNCHANGED genVars

\* disjoint_matchings(n) is exhausted.
TestExhausted ==
    /\ tpc = "iterating"
    /\ resume(CurN, tgen).result = "stop"
    /\ FinishN
    /\ UNCHANGED <<args, min_test, max_test, tk, called>>
    /\ UNCHANGED genVars

GenIdle ==
    /\ n = 0
    /\ gen = [g \in Gens |-> FreshFrame]
    /\ out = [g \in Gens |-> <<>>]

\* The argument lists of the three forms of "python matching.py test".
TestArgs(S) == {<<>>} \cup {<<a>> : a \in S} \cup {<<a, b>> : a, b \in S}

InitTest ==
    /\ GenIdle
    /\ args \in TestArgs((0 - MaxArg)..MaxArg)
    /\ min_test = 0 /\ max_test = 0
    /\ tpc = "start" /\ tk = 0
    /\ data = <<>> /\ tgen = FreshFrame
    /\ called = <<>> /\ report = <<>>

NextTest ==
    \/ TestStart
    \/ TestForN
    \/ TestComplete
    \/ TestValueError
    \/ TestMatching
    \/ TestExhausted

SpecTest == InitTest /\ [][NextTest]_vars

----------------------------------------------------------------------------
(* Vocabulary of the properties of the generator *)

\* n is an input the generator is specified for.
ValidN == n >= 2 /\ n % 2 = 0

Vertices == 0..(n - 1)

\* The unordered pairs of distinct vertices.
VertexPairs == {e \in SUBSET Vertices : Cardinality(e) = 2}

\* The unordered pair of an emitted pair.
Unordered(pair) == {pair[1], pair[2]}

\* The unordered pairs of a matching.
PairSet(matching) == {Unordered(matching[p]) : p \in 1..Len(matching)}

\* Where the pairs of a sequence of matchings are: <<matching, pair>>.
Positions(ms) ==
    UNION {{<<k, p>> : p \in 1..Len(ms[k])} : k \in 1..Len(ms)}

\* How often an unordered pair occurs in a sequence of matchings.
Occurrences(ms, e) ==
    Cardinality({pos \in Positions(ms) : Unordered(ms[pos[1]][pos[2]]) = e})

\* The 2-adic valuation and the odd part of m >= 1.
V2(m) == CHOOSE k \in 0..m : m % (2 ^ k) = 0 /\ m % (2 ^ (k + 1)) # 0
OddPart(m) == m \div (2 ^ V2(m))

\* The offsets of Regime A, and the k-th of them in increasing order.
NonSkipped(m) == {i \in 1..(m - 1) : i % (2 ^ V2(m)) # 0 /\ 2 * i # m}
NthNonSkipped(m, k) ==
    CHOOSE i \in NonSkipped(m) : Cardinality({j \in NonSkipped(m) : j <= i}) = k

\* The number of Regime-A matchings.
NumOffsets(m) == m - 1 - OddPart(m)

\* matching steps by offset i from vertex 0 on.
IsOffsetMatching(matching, i) ==
    /\ Len(matching) >= 1
    /\ matching[1] = <<0, i % n>>
    /\ \A p \in 1..Len(matching) : matching[p][2] = (matching[p][1] + i) % n

\* matching is the chain, in subgraph order, of the step-idx rotation
\* matchings of the residue classes modulo r = 2^(v-1).
IsRotationMatching(matching, idx) ==
    LET r == 2 ^ (V2(n) - 1)
        h == OddPart(n)
        elem(s, t) == s + (t % (2 * h)) * r
    IN  /\ Len(matching) = r * h
        /\ \A s \in 0..(r - 1) : \A d \in 0..(h - 1) :
              matching[s * h + d + 1] =
                  IF d = 0 THEN <<elem(s, idx), elem(s, idx + h)>>
                  ELSE <<elem(s, idx + d), elem(s, idx - d)>>

----------------------------------------------------------------------------
(* Properties of the generator *)

\* C1 (completeness): for even n >= 2 every pair a generator emits is an
\* unordered pair of two distinct vertices of [0,n), no unordered pair is
\* emitted twice, in either orientation, and once the generator is
\* exhausted every one of the C(n,2) unordered pairs has been emitted.
C1_Completeness ==
    \A g \in Gens : ValidN =>
        /\ \A pos \in Positions(out[g]) :
              Unordered(out[g][pos[1]][pos[2]]) \in VertexPairs
        /\ \A e \in VertexPairs : Occurrences(out[g], e) <= 1
        /\ gen[g].pc = "stopped" =>
              /\ \A e \in VertexPairs : Occurrences(out[g], e) = 1
              /\ Cardinality(Positions(out[g])) = (n * (n - 1)) \div 2

C1_Witness ==
    \E g \in Gens : n = 12 /\ gen[g].pc = "stopped" /\ Len(out[g]) > 0

\* C2 (matching validity): for even n >= 2 every matching emitted has
\* exactly n/2 pairs, each of two distinct vertices of [0,n), and every
\* vertex of [0,n) is in exactly one of its pairs.
C2_MatchingValidity ==
    \A g \in Gens : ValidN =>
        \A k \in 1..Len(out[g]) :
            LET matching == out[g][k]
            IN  /\ Len(matching) = n \div 2
                /\ \A p \in 1..Len(matching) :
                      /\ matching[p][1] \in Vertices
                      /\ matching[p][2] \in Vertices
                      /\ matching[p][1] # matching[p][2]
                /\ \A v \in Vertices :
                      Cardinality({p \in 1..Len(matching) :
                                      v \in Unordered(matching[p])}) = 1

C2_Witness ==
    \E g \in Gens :
        /\ n = 12
        /\ gen[g].pc = "rotation"
        /\ Len(out[g]) = NumOffsets(12) + 2

\* C3 (count): for even n >= 2 a generator never emits more than n-1
\* matchings, it is exhausted only after exactly n-1 of them, and an
\* exhausted generator emits nothing more.
C3_Count ==
    \A g \in Gens : ValidN =>
        /\ Len(out[g]) <= n - 1
        /\ gen[g].pc = "stopped" =>
              /\ Len(out[g]) = n - 1
              /\ resume(n, gen[g]).result = "stop"
        /\ gen[g].pc # "stopped" => gen[g].pc \in {"created", "offset", "rotation"}
        /\ (Len(out[g]) < n - 1 /\ gen[g].pc # "stopped") =>
              resume(n, gen[g]).result = "yield"

C3_Witness ==
    \E g \in Gens : n = 10 /\ gen[g].pc = "stopped" /\ Len(out[g]) = 9

\* C4 (input validation): for n odd or n <= 0 the first next() on the
\* generator raises ValueError and nothing is ever emitted.
C4_InvalidInputRaises ==
    \A g \in Gens : (n % 2 = 1 \/ n <= 0) =>
        /\ out[g] = <<>>
        /\ gen[g].pc \in {"created", "raised"}

\* C5 (emission order): for even n >= 2 the k-th matching emitted is, for
\* k <= n-1-halflen, the offset matching of the k-th smallest non-skipped
\* offset, and after those the rotation matching of step
\* idx = k - (n-1-halflen) - 1, its pairs chained in subgraph order.
C5_EmissionOrder ==
    \A g \in Gens : ValidN =>
        \A k \in 1..Len(out[g]) :
            IF k <= NumOffsets(n)
            THEN IsOffsetMatching(out[g][k], NthNonSkipped(n, k))
            ELSE /\ k <= n - 1
                 /\ IsRotationMatching(out[g][k], k - NumOffsets(n) - 1)

C5_Witness ==
    \E g \in Gens :
        /\ n = 12
        /\ gen[g].pc = "stopped"
        /\ Len(out[g]) = NumOffsets(12) + OddPart(12)
        /\ NumOffsets(12) = 8

\* C10 (complementary offsets): for even n >= 2 the offset n-i of a
\* non-skipped offset i is non-skipped too; every pair (a,b) of the
\* matching of offset i has b = (a+i) mod n; the matchings of offsets i
\* and n-i share no unordered pair and together hold each of the n
\* unordered pairs {a, (a+i) mod n}; and every pair (a,b) of a rotation
\* matching has (b-a) mod n equal to n/2 or to a non-zero multiple of
\* 2^v2(n).
C10_ComplementaryOffsets ==
    \A g \in Gens : ValidN =>
        LET offsets == {i \in 1..(n - 1) : ~skip_offset(n, i)}
            rank(i) == Cardinality({j \in offsets : j <= i})
            emitted(i) == rank(i) <= Len(out[g])
            matchingOf(i) == out[g][rank(i)]
        IN  /\ \A i \in offsets : (n - i) \in offsets
            /\ \A i \in offsets : emitted(i) =>
                  \A p \in 1..Len(matchingOf(i)) :
                      matchingOf(i)[p][2] = (matchingOf(i)[p][1] + i) % n
            /\ \A i \in offsets : (emitted(i) /\ emitted(n - i)) =>
                  /\ PairSet(matchingOf(i)) \cap PairSet(matchingOf(n - i)) = {}
                  /\ PairSet(matchingOf(i)) \cup PairSet(matchingOf(n - i))
                        = {{a, (a + i) % n} : a \in Vertices}
                  /\ Cardinality({{a, (a + i) % n} : a \in Vertices}) = n
            /\ \A k \in 1..Len(out[g]) : k > Cardinality(offsets) =>
                  \A p \in 1..Len(out[g][k]) :
                      LET diff == (out[g][k][p][2] - out[g][k][p][1]) % n
                      IN  \/ 2 * diff = n
                          \/ diff # 0 /\ diff % (2 ^ V2(n)) = 0

C10_Witness ==
    \E g \in Gens :
        /\ n = 12
        /\ gen[g].pc = "stopped"
        /\ ~skip_offset(12, 3) /\ ~skip_offset(12, 9)
        /\ \E k \in 1..Len(out[g]) : out[g][k][1] = <<0, 9>>

----------------------------------------------------------------------------
(* Properties of the verifier *)

\* The scan has ended, by "Test complete" or by an exception.
TestEnded == tpc \in {"complete", "raised"}

\* The even numbers from lo up to, not including, hi.
Evens(lo, hi) == {x \in lo..(hi - 1) : x % 2 = 0}

\* The range the arguments of test() ask for.
AskedRange ==
    CASE Len(args) = 0 -> Evens(2, 98 + 1)
      [] Len(args) = 1 -> Evens(2, args[1])
      [] Len(args) = 2 -> Evens(args[1], args[2])

\* C8 (verifier range): test(min_n, max_n) with min_n < max_n calls the
\* generator for the even n with min_n <= n < max_n, each once and in
\* increasing order, and for no other n; without arguments for the even n
\* from 2 to 98, with one argument for those from 2 up to it.
C8_VerifierRange ==
    (tpc # "start" /\ (Len(args) = 2 => args[1] < args[2])) =>
        /\ \A k \in 1..Len(called) :
              /\ called[k] \in AskedRange
              /\ k > 1 => called[k - 1] < called[k]
        /\ TestEnded => {called[k] : k \in 1..Len(called)} = AskedRange

====
